---------------------------- MODULE Spec2Model ----------------------------
(***************************************************************************)
(* A model of src/src/main.rs: one round of a powers-of-tau ceremony over  *)
(* a pairing-friendly curve.                                               *)
(*                                                                         *)
(* The groups G1, G2 and the scalar field Fr all have the same prime order *)
(* Q.  A point of G1 (of G2) is written as its discrete logarithm to the   *)
(* base G1Affine::generator() (G2Affine::generator()): 0 is the point at   *)
(* infinity, 1 the generator.  Point addition is addition mod Q, scalar    *)
(* multiplication is multiplication mod Q, and the pairing of a and b is   *)
(* the element of the target group with logarithm a*b mod Q.  This is the  *)
(* prime-order bilinear group the arkworks curve implements, with the      *)
(* 753-bit order of MNT6-753 replaced by a small prime.                    *)
(***************************************************************************)
EXTENDS Integers, Sequences, FiniteSets, TLC

VARIABLES
    \* same_ratio called on its own (main, lines 564-575)
    sr_g1, sr_g2, sr_out,
    \* power_pairs called on its own (main, lines 581-603); pp_r is <<>>
    \* until v[1] is multiplied by r, and <<r>> after
    pp_v, pp_x, pp_r, pp_rho, pp_out,
    \* one contribution and its verification: the accumulator of the
    \* challenge, the accumulator being transformed, the key pair, the digest
    \* given to keypair and the one given to verify_transform, the position
    \* in the round, what verify_transform returned, and whether the
    \* verifier's input was changed after the contribution
    before, after, pk, sk, digest, vdigest, phase, verdict, edited,
    \* a chain of transforms: the accumulator it started from, the current
    \* accumulator, the product of the keys applied, their number, and
    \* whether a transform panicked
    ch_start, ch_acc, ch_key, ch_n, ch_panic,
    \* one run of main on a file system: the files now and when the run
    \* began, the step main is at and whether it is running, the buffers of
    \* the BufWriters of `./challenge` and `./response`, the position of the
    \* reader in `./challenge` and what the HashReader and the HashWriter
    \* absorbed, and the local variables of main (<<>> until assigned)
    fs, fs0, pc, status, cbuf, rbuf, rd_pos, rd_hashed, wr_hashed,
    current_accumulator, current_accumulator_hash, keypair_digest,
    pub_key, priv_key,
    \* a HashReader or a HashWriter on a stream: the byte string the stream
    \* is to transfer, whether it is read or written, the number of bytes
    \* the stream transferred, what the hasher absorbed now and before the
    \* last call, the buffer and the result of the last call, and the
    \* digest (<<>> until into_hash)
    hs_x, hs_mode, hs_pos, hs_hasher, hs_prev, hs_buf, hs_ret, hs_digest,
    \* a call of merge_pairs or of power_pairs with its workers: the function
    \* called, the vector given to power_pairs, the two slices, the number of
    \* CPUs, the chunk size, the coefficients drawn so far, where the task of
    \* each chunk is, its local sums, the two shared sums, the task that
    \* holds each lock (0 for none), whether the call has returned, and what
    \* it returned
    mg_call, mg_v, mg_v1, mg_v2, mg_w, mg_cs, mg_rho, mg_pc, mg_local,
    mg_s, mg_sx, mg_lock_s, mg_lock_sx, mg_status, mg_out,
    \* a call of transform with its tasks: the private key, the number of
    \* CPUs, the chunk size, the table of the powers of tau, whether the
    \* task of each chunk has filled it, whether the call has returned, and
    \* the accumulator
    tf_key, tf_w, tf_cs, tf_table, tf_filled, tf_status, tf_out

srVars == <<sr_g1, sr_g2, sr_out>>
ppVars == <<pp_v, pp_x, pp_r, pp_rho, pp_out>>
cerVars == <<before, after, pk, sk, digest, vdigest, phase, verdict, edited>>
chVars == <<ch_start, ch_acc, ch_key, ch_n, ch_panic>>
ioVars == <<cbuf, rbuf, rd_pos, rd_hashed, wr_hashed>>
memVars == <<current_accumulator, current_accumulator_hash, keypair_digest,
             pub_key, priv_key>>
drVars == <<fs, fs0, pc, status, ioVars, memVars>>
hsVars == <<hs_x, hs_mode, hs_pos, hs_hasher, hs_prev, hs_buf, hs_ret,
            hs_digest>>
\* the parts of the state added to the ones above
mgVars == <<mg_call, mg_v, mg_v1, mg_v2, mg_w, mg_cs, mg_rho, mg_pc, mg_local,
            mg_s, mg_sx, mg_lock_s, mg_lock_sx, mg_status, mg_out>>
tfVars == <<tf_key, tf_w, tf_cs, tf_table, tf_filled, tf_status, tf_out>>
xVars == <<hsVars, mgVars, tfVars>>
oldVars == <<srVars, ppVars, cerVars, chVars, drVars>>
vars == <<oldVars, xVars>>
\* what a round of the ceremony leaves alone
notRound == <<srVars, ppVars, chVars, drVars, xVars>>

---------------------------------------------------------------------------
(* Bounds of the model *)

\* the longest vector handed to power_pairs on its own
MaxVecLen == 3
\* the largest value num_cpus::get() returns
MaxCpus == 4
\* the number of transforms in a chain
MaxChain == 3
\* TAU_POWERS_LENGTH, 1 << 5 in the source
TAU_POWERS_LENGTH == 2
\* the longest byte string a stream transfers, and the largest buffer
MaxBytes == 3
MaxBuf == 2
\* the longest vectors merge_pairs is called with directly
MaxMergeLen == 2

---------------------------------------------------------------------------
(* The curve *)

\* the order of Fr, G1 and G2
Q == 3

Fr == 0 .. (Q - 1)
G1 == 0 .. (Q - 1)
G2 == 0 .. (Q - 1)

G1Generator == 1
G2Generator == 1
Zero == 0
One == 1

\* point + point, and scalar + scalar
Add(a, b) == (a + b) % Q
\* point * scalar, and scalar * scalar
Mul(a, x) == (a * x) % Q

\* Field::pow: x^e by repeated multiplication, x^0 = 1 also for x = 0
RECURSIVE Pow(_, _)
Pow(x, e) == IF e = 0 THEN One ELSE Mul(Pow(x, e - 1), x)

\* P::pairing(a, b), as the logarithm of the target-group element
pairing(a, b) == (a * b) % Q

Cpus == 1 .. MaxCpus

Min(a, b) == IF a < b THEN a ELSE b

\* all vectors over S of length n, and of length at most n
Vectors(S, n) == [1 .. n -> S]
VectorsUpTo(S, n) == UNION {Vectors(S, k) : k \in 0 .. n}

---------------------------------------------------------------------------
(* The pairing-ratio kernel *)

\* what a call that panicked returns, and what a call that returned r returns
Panicked == [panic |-> TRUE]
Returned(r) == [panic |-> FALSE, val |-> r]

\* same_ratio pairing each first component with the other first component
same_ratio_paired_firsts(g1, g2) ==
    pairing(g1[1], g2[1]) = pairing(g1[2], g2[2])

\* same_ratio comparing the two pairs' second components only
same_ratio_seconds_only(g1, g2) == g1[2] = g2[2]

same_ratio(g1, g2) == pairing(g1[1], g2[2]) = pairing(g1[2], g2[1])

\* one worker's loop over its chunk lo..hi: the sum of v[i] * rho[i]
RECURSIVE ChunkSum(_, _, _, _)
ChunkSum(v, rho, lo, hi) ==
    IF lo > hi THEN Zero
    ELSE Add(Mul(v[lo], rho[lo]), ChunkSum(v, rho, lo + 1, hi))

\* the shared sum after every chunk c..n of size cs has added its local sum
RECURSIVE SumOfChunks(_, _, _, _, _)
SumOfChunks(v, rho, cs, c, n) ==
    IF c > n THEN Zero
    ELSE Add(ChunkSum(v, rho, (c - 1) * cs + 1, Min(c * cs, Len(v))),
             SumOfChunks(v, rho, cs, c + 1, n))

\* merge_pairs with the coefficients rho (rho[i] is the one drawn for index i)
\* on a machine with w CPUs
merge_pairs(v1, v2, rho, w) ==
    IF Len(v1) # Len(v2) THEN Panicked
    ELSE LET chunk_size == (Len(v1) \div w) + 1
             chunks == (Len(v1) + chunk_size - 1) \div chunk_size
         IN  Returned(<<SumOfChunks(v1, rho, chunk_size, 1, chunks),
                        SumOfChunks(v2, rho, chunk_size, 1, chunks)>>)

\* power_pairs slicing v[0..n-1] twice, so pairing each element with itself
power_pairs_same_slice(v, rho, w) ==
    IF Len(v) = 0 THEN Panicked
    ELSE merge_pairs(SubSeq(v, 1, Len(v) - 1), SubSeq(v, 1, Len(v) - 1), rho, w)

\* power_pairs: v.len() - 1 underflows (and &v[1..] is out of range) on an
\* empty vector
power_pairs(v, rho, w) ==
    IF Len(v) = 0 THEN Panicked
    ELSE merge_pairs(SubSeq(v, 1, Len(v) - 1), SubSeq(v, 2, Len(v)), rho, w)

\* the coefficient draws of one power_pairs call on v
Coeffs(v) == Vectors(Fr, IF Len(v) = 0 THEN 0 ELSE Len(v) - 1)

---------------------------------------------------------------------------
(* Hashing *)

\* A byte string is a sequence of tokens, one per serialized item:
\* kind "u8" (one byte), "len" (a vector's length prefix), "hash" (the 64
\* bytes of a digest), "g1u", "g2u" (an uncompressed point), "g1c", "g2c"
\* (a compressed point).
Tok(kind, val) == [kind |-> kind, val |-> val]

\* BLAKE2b-512 of a byte string: collision-free, so the digest is written as
\* the string it was computed from
Blake2b(bytes) == [blake2b |-> bytes]

blank_hash == Blake2b(<<>>)

\* the number a digest's leading bytes seed the ChaCha stream with
RECURSIVE SeedOf(_)
RECURSIVE SeedSum(_, _)
SeedSum(bytes, i) ==
    IF i > Len(bytes) THEN 0
    ELSE (IF bytes[i].kind = "hash" THEN SeedOf(bytes[i].val)
          ELSE bytes[i].val) + SeedSum(bytes, i + 1)
SeedOf(d) == SeedSum(d.blake2b, 1) % (Q - 1)

\* hash_to_g2: the G2 point ChaChaRng::from_seed(seed).gen() samples, which
\* is a point of the group other than the identity
hash_to_g2(d) == Mul(G2Generator, 1 + SeedOf(d))

\* the 64-byte transcript digests a key pair is derived from: the hashes of
\* two different transcripts
Digests == {Blake2b(<<Tok("u8", 0)>>), Blake2b(<<Tok("u8", 1)>>)}

---------------------------------------------------------------------------
(* The accumulator *)

TAU_POWERS_G1_LENGTH == (2 * TAU_POWERS_LENGTH) - 1

\* Accumulator::new
Accumulator_new ==
    [tau_powers_g1 |-> [i \in 1 .. TAU_POWERS_G1_LENGTH |-> G1Generator],
     tau_powers_g2 |-> [i \in 1 .. TAU_POWERS_LENGTH |-> G2Generator],
     alpha_tau_powers_g1 |-> [i \in 1 .. TAU_POWERS_LENGTH |-> G1Generator],
     beta_tau_powers_g1 |-> [i \in 1 .. TAU_POWERS_LENGTH |-> G1Generator],
     beta_g2 |-> G2Generator]

PrivateKey(tau, alpha, beta) == [tau |-> tau, alpha |-> alpha, beta |-> beta]
PrivateKeys == [tau : Fr, alpha : Fr, beta : Fr]

\* the powers of tau, built by chunks of chunk_size: chunk i starts from
\* tau^(i * chunk_size) and multiplies by tau from one element to the next
taupowers(tau, chunk_size) ==
    [j \in 1 .. TAU_POWERS_G1_LENGTH |->
        LET i == (j - 1) \div chunk_size
        IN  Mul(Pow(tau, i * chunk_size), Pow(tau, (j - 1) - (i * chunk_size)))]

\* batch_exp adding the coefficient to the exponent
batch_exp_adds_coeff(bases, exp, coeff) ==
    IF Len(bases) # Len(exp) THEN Panicked
    ELSE Returned([i \in 1 .. Len(bases) |->
            Mul(bases[i], IF coeff = <<>> THEN exp[i]
                          ELSE Add(exp[i], coeff[1]))])

\* batch_exp: coeff is <<>> (None) or <<c>> (Some(c))
batch_exp(bases, exp, coeff) ==
    IF Len(bases) # Len(exp) THEN Panicked
    ELSE Returned([i \in 1 .. Len(bases) |->
            Mul(bases[i], IF coeff = <<>> THEN exp[i]
                          ELSE Mul(exp[i], coeff[1]))])

\* Accumulator::transform leaving beta_g2 as it was
transform_keeps_beta_g2(acc, key, w) ==
    LET chunk_size == TAU_POWERS_G1_LENGTH \div w
        tp == taupowers(key.tau, chunk_size)
        head == SubSeq(tp, 1, TAU_POWERS_LENGTH)
        t1 == batch_exp(acc.tau_powers_g1, tp, <<>>)
        t2 == batch_exp(acc.tau_powers_g2, head, <<>>)
        a1 == batch_exp(acc.alpha_tau_powers_g1, head, <<key.alpha>>)
        b1 == batch_exp(acc.beta_tau_powers_g1, head, <<key.beta>>)
    IN  IF chunk_size = 0 \/ t1.panic \/ t2.panic \/ a1.panic \/ b1.panic
        THEN Panicked
        ELSE Returned([tau_powers_g1 |-> t1.val,
                       tau_powers_g2 |-> t2.val,
                       alpha_tau_powers_g1 |-> a1.val,
                       beta_tau_powers_g1 |-> b1.val,
                       beta_g2 |-> acc.beta_g2])

\* Accumulator::transform on a machine with w CPUs: par_chunks_mut panics on
\* a chunk size of 0, batch_exp on vectors of different lengths
transform(acc, key, w) ==
    LET chunk_size == TAU_POWERS_G1_LENGTH \div w
        tp == IF chunk_size = 0 THEN <<>> ELSE taupowers(key.tau, chunk_size)
        head == SubSeq(tp, 1, TAU_POWERS_LENGTH)
        t1 == batch_exp(acc.tau_powers_g1, tp, <<>>)
        t2 == batch_exp(acc.tau_powers_g2, head, <<>>)
        a1 == batch_exp(acc.alpha_tau_powers_g1, head, <<key.alpha>>)
        b1 == batch_exp(acc.beta_tau_powers_g1, head, <<key.beta>>)
    IN  IF chunk_size = 0 THEN Panicked
        ELSE IF t1.panic \/ t2.panic \/ a1.panic \/ b1.panic THEN Panicked
        ELSE Returned([tau_powers_g1 |-> t1.val,
                       tau_powers_g2 |-> t2.val,
                       alpha_tau_powers_g1 |-> a1.val,
                       beta_tau_powers_g1 |-> b1.val,
                       beta_g2 |-> Mul(acc.beta_g2, key.beta)])

---------------------------------------------------------------------------
(* Key derivation *)

\* PublicKey::default
PublicKey_default ==
    [tau_g1 |-> <<Zero, Zero>>, alpha_g1 |-> <<Zero, Zero>>,
     beta_g1 |-> <<Zero, Zero>>,
     tau_g2 |-> Zero, alpha_g2 |-> Zero, beta_g2 |-> Zero]

\* BLAKE2b(personalization | transcript | g^s | g^{s*x}), hashed into G2
compute_g2_s(g1_s, g1_s_x, personalization, d) ==
    hash_to_g2(Blake2b(<<Tok("u8", personalization), Tok("hash", d),
                         Tok("g1u", g1_s), Tok("g1u", g1_s_x)>>))

\* the closure op of keypair, for the point g1_s that G1Projective::rand drew
op(x, personalization, g1_s, d) ==
    LET g1_s_x == Mul(g1_s, x)
        g2_s == compute_g2_s(g1_s, g1_s_x, personalization, d)
    IN  <<<<g1_s, g1_s_x>>, Mul(g2_s, x)>>

\* the points G1Projective::rand draws: any point but the identity
G1Rand == G1 \ {Zero}

\* keypair for the scalars key and the points s the generator rng yields
keypair(key, s, d) ==
    LET pk_tau == op(key.tau, 0, s[1], d)
        pk_alpha == op(key.alpha, 1, s[2], d)
        pk_beta == op(key.beta, 2, s[3], d)
    IN  [tau_g1 |-> pk_tau[1], alpha_g1 |-> pk_alpha[1],
         beta_g1 |-> pk_beta[1],
         tau_g2 |-> pk_tau[2], alpha_g2 |-> pk_alpha[2],
         beta_g2 |-> pk_beta[2]]

---------------------------------------------------------------------------
(* The verifier *)

\* verify_transform up to the first power_pairs call (lines 463-525):
\* "false" at the first failing check, "panic" at the first index out of
\* range, "continue" when every check passed
verify_head(b, a, key, d) ==
    LET tau_g2_s == compute_g2_s(key.tau_g1[1], key.tau_g1[2], 0, d)
        alpha_g2_s == compute_g2_s(key.alpha_g1[1], key.alpha_g1[2], 1, d)
        beta_g2_s == compute_g2_s(key.beta_g1[1], key.beta_g1[2], 2, d)
    IN  IF ~same_ratio(key.tau_g1, <<tau_g2_s, key.tau_g2>>) THEN "false"
        ELSE IF ~same_ratio(key.alpha_g1, <<alpha_g2_s, key.alpha_g2>>)
        THEN "false"
        ELSE IF ~same_ratio(key.beta_g1, <<beta_g2_s, key.beta_g2>>)
        THEN "false"
        ELSE IF Len(a.tau_powers_g1) = 0 THEN "panic"
        ELSE IF a.tau_powers_g1[1] # G1Generator THEN "false"
        ELSE IF Len(a.tau_powers_g2) = 0 THEN "panic"
        ELSE IF a.tau_powers_g2[1] # G2Generator THEN "false"
        ELSE IF Len(b.tau_powers_g1) < 2 \/ Len(a.tau_powers_g1) < 2
        THEN "panic"
        ELSE IF ~same_ratio(<<b.tau_powers_g1[2], a.tau_powers_g1[2]>>,
                            <<tau_g2_s, key.tau_g2>>) THEN "false"
        ELSE IF Len(b.alpha_tau_powers_g1) = 0
                \/ Len(a.alpha_tau_powers_g1) = 0 THEN "panic"
        ELSE IF ~same_ratio(<<b.alpha_tau_powers_g1[1],
                              a.alpha_tau_powers_g1[1]>>,
                            <<alpha_g2_s, key.alpha_g2>>) THEN "false"
        ELSE IF Len(b.beta_tau_powers_g1) = 0
                \/ Len(a.beta_tau_powers_g1) = 0 THEN "panic"
        ELSE IF ~same_ratio(<<b.beta_tau_powers_g1[1],
                              a.beta_tau_powers_g1[1]>>,
                            <<beta_g2_s, key.beta_g2>>) THEN "false"
        ELSE IF ~same_ratio(<<b.beta_tau_powers_g1[1],
                              a.beta_tau_powers_g1[1]>>,
                            <<b.beta_g2, a.beta_g2>>) THEN "false"
        ELSE "continue"

\* lines 528-533: power_pairs(after.tau_powers_g1) against tau_powers_g2[0..2]
verify_tau_g1(a, rho, w) ==
    LET p == power_pairs(a.tau_powers_g1, rho, w)
    IN  IF p.panic \/ Len(a.tau_powers_g2) < 2 THEN "panic"
        ELSE IF ~same_ratio(p.val, <<a.tau_powers_g2[1], a.tau_powers_g2[2]>>)
        THEN "false"
        ELSE "continue"

\* lines 534-539: tau_powers_g1[0..2] against power_pairs(after.tau_powers_g2)
verify_tau_g2(a, rho, w) ==
    LET p == power_pairs(a.tau_powers_g2, rho, w)
    IN  IF Len(a.tau_powers_g1) < 2 \/ p.panic THEN "panic"
        ELSE IF ~same_ratio(<<a.tau_powers_g1[1], a.tau_powers_g1[2]>>, p.val)
        THEN "false"
        ELSE "continue"

\* lines 540-545: power_pairs(after.alpha_tau_powers_g1)
verify_alpha(a, rho, w) ==
    LET p == power_pairs(a.alpha_tau_powers_g1, rho, w)
    IN  IF p.panic \/ Len(a.tau_powers_g2) < 2 THEN "panic"
        ELSE IF ~same_ratio(p.val, <<a.tau_powers_g2[1], a.tau_powers_g2[2]>>)
        THEN "false"
        ELSE "continue"

\* lines 546-553: power_pairs(after.beta_tau_powers_g1), then true
verify_beta(a, rho, w) ==
    LET p == power_pairs(a.beta_tau_powers_g1, rho, w)
    IN  IF p.panic \/ Len(a.tau_powers_g2) < 2 THEN "panic"
        ELSE IF ~same_ratio(p.val, <<a.tau_powers_g2[1], a.tau_powers_g2[2]>>)
        THEN "false"
        ELSE "true"

---------------------------------------------------------------------------
(* Files and serialization *)

\* Sizes::new: the byte sizes of the points, as the curve reports them
g1_uncompressed_byte_size == 2
g2_uncompressed_byte_size == 4
g1_compressed_byte_size == 1
g2_compressed_byte_size == 3

\* the number of bytes of a token
SizeOf(tok) ==
    CASE tok.kind = "hash" -> 64
      [] tok.kind = "len" -> 8
      [] tok.kind = "g1u" -> g1_uncompressed_byte_size
      [] tok.kind = "g2u" -> g2_uncompressed_byte_size
      [] tok.kind = "g1c" -> g1_compressed_byte_size
      [] tok.kind = "g2c" -> g2_compressed_byte_size
      [] OTHER -> 1

RECURSIVE ByteLength(_)
\* metadata.len() of a file holding bytes
ByteLength(bytes) ==
    IF bytes = <<>> THEN 0 ELSE SizeOf(Head(bytes)) + ByteLength(Tail(bytes))

\* Sizes::accumulator_byte_size_with_hash
accumulator_byte_size_with_hash ==
    (TAU_POWERS_G1_LENGTH * g1_uncompressed_byte_size)
    + (TAU_POWERS_LENGTH * g2_uncompressed_byte_size)
    + (TAU_POWERS_LENGTH * g1_uncompressed_byte_size)
    + (TAU_POWERS_LENGTH * g1_uncompressed_byte_size)
    + 32
    + g2_uncompressed_byte_size
    + 64

\* a vector: its length, then its points
SerializeVec(v, kind) ==
    <<Tok("len", Len(v))>> \o [i \in 1 .. Len(v) |-> Tok(kind, v[i])]

\* Accumulator::serialize_uncompressed (compress = "No") and
\* serialize_compressed (compress = "Yes"): the fields in their order
serialize_accumulator(acc, compress) ==
    LET k1 == IF compress = "Yes" THEN "g1c" ELSE "g1u"
        k2 == IF compress = "Yes" THEN "g2c" ELSE "g2u"
    IN  SerializeVec(acc.tau_powers_g1, k1)
        \o SerializeVec(acc.tau_powers_g2, k2)
        \o SerializeVec(acc.alpha_tau_powers_g1, k1)
        \o SerializeVec(acc.beta_tau_powers_g1, k1)
        \o <<Tok(k2, acc.beta_g2)>>

\* PublicKey::serialize_uncompressed: the fields in their order
serialize_public_key(key) ==
    <<Tok("g1u", key.tau_g1[1]), Tok("g1u", key.tau_g1[2]),
      Tok("g1u", key.alpha_g1[1]), Tok("g1u", key.alpha_g1[2]),
      Tok("g1u", key.beta_g1[1]), Tok("g1u", key.beta_g1[2]),
      Tok("g2u", key.tau_g2), Tok("g2u", key.alpha_g2),
      Tok("g2u", key.beta_g2)>>

\* reading a vector of uncompressed points from position pos of bytes
DeserializeVec(bytes, pos, kind) ==
    LET n == IF pos < Len(bytes) /\ bytes[pos + 1].kind = "len"
             THEN bytes[pos + 1].val ELSE -1
    IN  IF n >= 0 /\ pos + 1 + n <= Len(bytes)
           /\ \A i \in 1 .. n : bytes[pos + 1 + i].kind = kind
        THEN [ok |-> TRUE, val |-> [i \in 1 .. n |-> bytes[pos + 1 + i].val],
              pos |-> pos + 1 + n]
        ELSE [ok |-> FALSE, val |-> <<>>, pos |-> pos]

\* Accumulator::deserialize_with_mode(reader, Compress::No, Validate::No)
\* from position pos: the accumulator and the position after it, or an error
deserialize_with_mode(bytes, pos) ==
    LET t1 == DeserializeVec(bytes, pos, "g1u")
        t2 == DeserializeVec(bytes, t1.pos, "g2u")
        a1 == DeserializeVec(bytes, t2.pos, "g1u")
        b1 == DeserializeVec(bytes, a1.pos, "g1u")
        ok == /\ t1.ok /\ t2.ok /\ a1.ok /\ b1.ok
              /\ b1.pos < Len(bytes)
              /\ bytes[b1.pos + 1].kind = "g2u"
    IN  IF ok
        THEN [ok |-> TRUE, pos |-> b1.pos + 1,
              val |-> [tau_powers_g1 |-> t1.val,
                       tau_powers_g2 |-> t2.val,
                       alpha_tau_powers_g1 |-> a1.val,
                       beta_tau_powers_g1 |-> b1.val,
                       beta_g2 |-> bytes[b1.pos + 1].val]]
        ELSE [ok |-> FALSE, pos |-> pos, val |-> Accumulator_new]

\* a file that does not exist, and a file holding bytes
NoFile == [exists |-> FALSE, data |-> <<>>]
File(bytes) == [exists |-> TRUE, data |-> bytes]

\* OpenOptions::new().write(true).create_new(true).open(path) ignoring what
\* is at path, as File::create does
create_truncating(file) == Returned(File(<<>>))

\* OpenOptions::new().write(true).create_new(true).open(path): an error if
\* the file exists, a new empty file if not
create_new(file) == IF file.exists THEN Panicked ELSE Returned(File(<<>>))

\* HashReader::into_hash of a reader that absorbed nothing
into_hash_of_nothing(absorbed) == Blake2b(<<>>)

\* HashReader::into_hash, HashWriter::into_hash: the digest of what the
\* hasher absorbed
into_hash(absorbed) == Blake2b(absorbed)

\* what main writes to `./challenge`
FreshChallenge ==
    <<Tok("hash", blank_hash)>> \o serialize_accumulator(Accumulator_new, "No")

---------------------------------------------------------------------------
(* The parts of the state a specification does not use *)

RatioIdle ==
    sr_g1 = <<Zero, Zero>> /\ sr_g2 = <<Zero, Zero>> /\ sr_out = "none"

PowerIdle ==
    /\ pp_v = <<>> /\ pp_x = Zero /\ pp_r = <<>> /\ pp_rho = <<>>
    /\ pp_out = "none"

RoundIdle ==
    /\ before = Accumulator_new
    /\ after = Accumulator_new
    /\ pk = PublicKey_default
    /\ sk = PrivateKey(Zero, Zero, Zero)
    /\ digest = blank_hash
    /\ vdigest = blank_hash
    /\ phase = "idle"
    /\ verdict = "none"
    /\ edited = FALSE

DriverIdle ==
    /\ fs = [output |-> NoFile, challenge |-> NoFile, response |-> NoFile]
    /\ fs0 = fs
    /\ pc = "demo" /\ status = "idle"
    /\ cbuf = <<>> /\ rbuf = <<>>
    /\ rd_pos = 0 /\ rd_hashed = <<>> /\ wr_hashed = <<>>
    /\ current_accumulator = <<>> /\ current_accumulator_hash = <<>>
    /\ keypair_digest = <<>> /\ pub_key = <<>> /\ priv_key = <<>>

\* what a call of read or write on the underlying stream returns: Err(e),
\* or Ok(n)
IoErr == [err |-> TRUE, n |-> 0]
IoOk(n) == [err |-> FALSE, n |-> n]

StreamIdle ==
    /\ hs_x = <<>> /\ hs_mode = "idle" /\ hs_pos = 0
    /\ hs_hasher = <<>> /\ hs_prev = <<>> /\ hs_buf = <<>>
    /\ hs_ret = IoOk(0) /\ hs_digest = <<>>

MergeIdle ==
    /\ mg_call = "none" /\ mg_v = <<>> /\ mg_v1 = <<>> /\ mg_v2 = <<>>
    /\ mg_w = 1 /\ mg_cs = 0 /\ mg_rho = <<>> /\ mg_pc = <<>>
    /\ mg_local = <<>> /\ mg_s = Zero /\ mg_sx = Zero
    /\ mg_lock_s = 0 /\ mg_lock_sx = 0
    /\ mg_status = "idle" /\ mg_out = <<Zero, Zero>>

TransformIdle ==
    /\ tf_key = PrivateKey(Zero, Zero, Zero) /\ tf_w = 1 /\ tf_cs = 0
    /\ tf_table = <<>> /\ tf_filled = <<>>
    /\ tf_status = "idle" /\ tf_out = Accumulator_new

\* the parts added to the ones above
RestIdle == StreamIdle /\ MergeIdle /\ TransformIdle

ChainIdle ==
    /\ ch_start = Accumulator_new
    /\ ch_acc = Accumulator_new
    /\ ch_key = PrivateKey(One, One, One)
    /\ ch_n = 0
    /\ ch_panic = FALSE

---------------------------------------------------------------------------
(* same_ratio on its own *)

Bool(b) == IF b THEN "true" ELSE "false"

InitRatio ==
    /\ sr_g1 \in G1 \X G1
    /\ sr_g2 \in G2 \X G2
    /\ sr_out = "none"
    /\ PowerIdle /\ RoundIdle /\ ChainIdle /\ DriverIdle /\ RestIdle

CallSameRatio ==
    /\ sr_out = "none"
    /\ sr_out' = Bool(same_ratio(sr_g1, sr_g2))
    /\ UNCHANGED <<sr_g1, sr_g2, ppVars, cerVars, chVars, drVars, xVars>>

NextRatio == CallSameRatio

SpecRatio == InitRatio /\ [][NextRatio]_vars

\* there is a scalar x with b1 = x*a1 and b2 = x*a2
CommonScalar(g1, g2) ==
    \E x \in Fr : g1[2] = Mul(g1[1], x) /\ g2[2] = Mul(g2[1], x)

\* C5 as stated: same_ratio returns true exactly when a common scalar
\* exists, for all inputs, the identity included.
C5_TrueIffCommonScalar ==
    sr_out # "none" => ((sr_out = "true") <=> CommonScalar(sr_g1, sr_g2))

\* C5 amended: same_ratio returns true exactly when a common scalar exists,
\* for all inputs in which a1 and a2 are not both the identity; when a1 and
\* a2 are both the identity it returns true whatever b1 and b2 are.
C5_TrueIffCommonScalarUnlessBothIdentity ==
    sr_out # "none" =>
        IF sr_g1[1] = Zero /\ sr_g2[1] = Zero
        THEN sr_out = "true"
        ELSE (sr_out = "true") <=> CommonScalar(sr_g1, sr_g2)

\* same_ratio has accepted a pair whose G1 base is the identity
C5_Witness ==
    /\ sr_out = "true"
    /\ sr_g1[1] = Zero
    /\ sr_g2[1] # Zero
    /\ sr_g2[2] # Zero

\* the inputs of the same-ratio false scenario for the scalar s:
\* same_ratio((g1_s, g1), (g2, g2_s))
FalseScenario(s) ==
    /\ sr_g1 = <<Mul(G1Generator, s), G1Generator>>
    /\ sr_g2 = <<G2Generator, Mul(G2Generator, s)>>

---------------------------------------------------------------------------
(* power_pairs on its own *)

InitPower ==
    /\ pp_v \in VectorsUpTo(G1, MaxVecLen)
    /\ pp_x \in Fr
    /\ pp_r = <<>>
    /\ pp_rho = <<>>
    /\ pp_out = "none"
    /\ RatioIdle /\ RoundIdle /\ ChainIdle /\ DriverIdle /\ RestIdle

\* same_ratio(power_pairs(&v), (G2Affine::generator(), gx))
CallPowerPairs ==
    /\ pp_out = "none"
    /\ \E rho \in Coeffs(pp_v) : \E w \in Cpus :
          LET p == power_pairs(pp_v, rho, w)
          IN  /\ pp_rho' = rho
              /\ pp_out' = IF p.panic THEN "panic"
                           ELSE Bool(same_ratio(p.val,
                                     <<G2Generator, Mul(G2Generator, pp_x)>>))
    /\ UNCHANGED <<pp_v, pp_x, pp_r, srVars, cerVars, chVars, drVars, xVars>>

\* v[1] = (v[1] * Fr::rand(rng)).into_affine()
TamperVector ==
    /\ pp_r = <<>>
    /\ Len(pp_v) >= 2
    /\ \E r \in Fr :
          /\ pp_r' = <<r>>
          /\ pp_v' = [pp_v EXCEPT ![2] = Mul(pp_v[2], r)]
    /\ pp_rho' = <<>>
    /\ pp_out' = "none"
    /\ UNCHANGED <<pp_x, srVars, cerVars, chVars, drVars, xVars>>

NextPower == CallPowerPairs \/ TamperVector

SpecPower == InitPower /\ [][NextPower]_vars

\* v[i+1] = x * v[i] for every i
IsProgression(v, x) == \A i \in 1 .. (Len(v) - 1) : v[i + 1] = Mul(v[i], x)

\* the check of main on v and x, with the coefficients rho and w CPUs
PowerCheck(v, x, rho, w) ==
    same_ratio(power_pairs(v, rho, w).val,
               <<G2Generator, Mul(G2Generator, x)>>)

\* [G1, x*G1, x^2*G1, ...] of length n with its second element multiplied by r
TamperedPowers(x, r, n) ==
    [i \in 1 .. n |->
        IF i = 2 THEN Mul(Mul(G1Generator, x), r)
        ELSE Mul(G1Generator, Pow(x, i - 1))]

\* the coefficient of index i, 0 where the call drew none
CoeffAt(rho, i) == IF i <= Len(rho) THEN rho[i] ELSE Zero

---------------------------------------------------------------------------
(* Rounds of the ceremony: a contribution to the challenge, its            *)
(* verification, and the next challenge made of the accepted response      *)

Init == RoundIdle /\ RatioIdle /\ PowerIdle /\ ChainIdle /\ DriverIdle /\ RestIdle

\* keypair(&mut rng, digest) on the accumulator read from the challenge,
\* for a digest of ds and points of ss that rng yields
KeypairFrom(ds, ss) ==
    /\ phase = "idle"
    /\ \E d \in ds : \E key \in PrivateKeys : \E s \in ss :
          /\ digest' = d
          /\ sk' = key
          /\ pk' = keypair(key, s, d)
    /\ after' = before
    /\ phase' = "keyed"
    /\ UNCHANGED <<before, vdigest, verdict, edited, notRound>>

Keypair == KeypairFrom(Digests, G1Rand \X G1Rand \X G1Rand)

\* current_accumulator.transform(&priv_key)
Transform ==
    /\ phase = "keyed"
    /\ \E w \in Cpus :
          LET t == transform(after, sk, w)
          IN  IF t.panic
              THEN phase' = "panicked" /\ UNCHANGED after
              ELSE phase' = "transformed" /\ after' = t.val
    /\ UNCHANGED <<before, pk, sk, digest, vdigest, verdict, edited, notRound>>

\* where verify_transform goes after a part that ended with r
Proceed(r, next) ==
    IF r = "continue"
    THEN phase' = next /\ verdict' = "none"
    ELSE phase' = "done" /\ verdict' = r

\* verify_transform(before, after, pk, d), lines 463-525
VerifyHead ==
    /\ phase = "transformed"
    /\ \E d \in Digests :
          /\ vdigest' = d
          /\ Proceed(verify_head(before, after, pk, d), "v_tau_g1")
    /\ UNCHANGED <<before, after, pk, sk, digest, edited, notRound>>

VerifyTauG1 ==
    /\ phase = "v_tau_g1"
    /\ \E rho \in Coeffs(after.tau_powers_g1) : \E w \in Cpus :
          Proceed(verify_tau_g1(after, rho, w), "v_tau_g2")
    /\ UNCHANGED <<before, after, pk, sk, digest, vdigest, edited, notRound>>

VerifyTauG2 ==
    /\ phase = "v_tau_g2"
    /\ \E rho \in Coeffs(after.tau_powers_g2) : \E w \in Cpus :
          Proceed(verify_tau_g2(after, rho, w), "v_alpha")
    /\ UNCHANGED <<before, after, pk, sk, digest, vdigest, edited, notRound>>

VerifyAlpha ==
    /\ phase = "v_alpha"
    /\ \E rho \in Coeffs(after.alpha_tau_powers_g1) : \E w \in Cpus :
          Proceed(verify_alpha(after, rho, w), "v_beta")
    /\ UNCHANGED <<before, after, pk, sk, digest, vdigest, edited, notRound>>

VerifyBeta ==
    /\ phase = "v_beta"
    /\ \E rho \in Coeffs(after.beta_tau_powers_g1) : \E w \in Cpus :
          Proceed(verify_beta(after, rho, w), "done")
    /\ UNCHANGED <<before, after, pk, sk, digest, vdigest, edited, notRound>>

\* the response verified against the digest of its challenge becomes the
\* accumulator of the next challenge
NextRound ==
    /\ phase = "done"
    /\ verdict = "true"
    /\ vdigest = digest
    /\ before' = after
    /\ after' = after
    /\ pk' = PublicKey_default
    /\ sk' = PrivateKey(Zero, Zero, Zero)
    /\ digest' = blank_hash
    /\ vdigest' = blank_hash
    /\ phase' = "idle"
    /\ verdict' = "none"
    /\ UNCHANGED <<edited, notRound>>

Next ==
    \/ Keypair
    \/ Transform
    \/ VerifyHead
    \/ VerifyTauG1
    \/ VerifyTauG2
    \/ VerifyAlpha
    \/ VerifyBeta
    \/ NextRound

Spec == Init /\ [][Next]_vars

\* the response is the challenge transformed with sk, and pk is a public key
\* keypair derives for sk from the digest
HonestResponse ==
    /\ \E w \in Cpus :
          LET t == transform(before, sk, w) IN ~t.panic /\ t.val = after
    /\ \E s \in G1Rand \X G1Rand \X G1Rand : pk = keypair(sk, s, digest)

Verifying == phase \in {"v_tau_g1", "v_tau_g2", "v_alpha", "v_beta", "done"}

\* C1: verify_transform, given the digest the key pair was derived from,
\* accepts the transform of every accumulator reachable from the identity
\* with every private key, whatever coefficients merge_pairs draws: it never
\* returns false and never panics, and when it returns, it returns true.
C1_Completeness ==
    (Verifying /\ vdigest = digest /\ HonestResponse) =>
        /\ verdict \notin {"false", "panic"}
        /\ phase = "done" => verdict = "true"

\* a response to a challenge that is not the identity, made with a tau that
\* is neither 0 nor 1, has been accepted
C1_Witness ==
    /\ phase = "done" /\ verdict = "true" /\ vdigest = digest
    /\ HonestResponse
    /\ before # Accumulator_new
    /\ sk.tau \notin {Zero, One}
    /\ sk.beta \notin {Zero, One}

\* C3 as stated: a response to the identity accumulator whose key pair was
\* derived from digest A is rejected when verified with a digest B # A,
\* for every private key keypair can sample.
C3_CrossDigestRejected ==
    (phase = "done" /\ before = Accumulator_new /\ vdigest # digest
        /\ HonestResponse) => verdict = "false"

\* C3, what the code does: the response is rejected under another digest
\* unless tau, alpha and beta are all 0, and then it is accepted.
C3_CrossDigestRejectedUnlessZeroKey ==
    (phase = "done" /\ before = Accumulator_new /\ vdigest # digest
        /\ HonestResponse) =>
        ((verdict = "false") <=> (sk # PrivateKey(Zero, Zero, Zero)))

---------------------------------------------------------------------------
(* A chain of transforms *)

\* the accumulators that differ from acc in one slot
OneSlotChanged(acc) ==
    ( {[acc EXCEPT !.tau_powers_g1[i] = p] :
          i \in 1 .. Len(acc.tau_powers_g1), p \in G1}
      \cup {[acc EXCEPT !.tau_powers_g2[i] = p] :
          i \in 1 .. Len(acc.tau_powers_g2), p \in G2}
      \cup {[acc EXCEPT !.alpha_tau_powers_g1[i] = p] :
          i \in 1 .. Len(acc.alpha_tau_powers_g1), p \in G1}
      \cup {[acc EXCEPT !.beta_tau_powers_g1[i] = p] :
          i \in 1 .. Len(acc.beta_tau_powers_g1), p \in G1}
      \cup {[acc EXCEPT !.beta_g2 = p] : p \in G2} ) \ {acc}

InitChain ==
    /\ ch_start \in {Accumulator_new} \cup OneSlotChanged(Accumulator_new)
    /\ ch_acc = ch_start
    /\ ch_key = PrivateKey(One, One, One)
    /\ ch_n = 0
    /\ ch_panic = FALSE
    /\ RatioIdle /\ PowerIdle /\ RoundIdle /\ DriverIdle /\ RestIdle

\* acc.transform(&key) on the current accumulator
ChainTransform ==
    /\ ch_n < MaxChain
    /\ ~ch_panic
    /\ \E key \in PrivateKeys : \E w \in Cpus :
          LET t == transform(ch_acc, key, w)
          IN  IF t.panic
              THEN ch_panic' = TRUE /\ UNCHANGED <<ch_acc, ch_key, ch_n>>
              ELSE /\ ch_acc' = t.val
                   /\ ch_key' = PrivateKey(Mul(ch_key.tau, key.tau),
                                           Mul(ch_key.alpha, key.alpha),
                                           Mul(ch_key.beta, key.beta))
                   /\ ch_n' = ch_n + 1
                   /\ UNCHANGED ch_panic
    /\ UNCHANGED <<ch_start, srVars, ppVars, cerVars, drVars, xVars>>

NextChain == ChainTransform

SpecChain == InitChain /\ [][NextChain]_vars

\* tau_g1[0] = G1, tau_g2[0] = G2, every vector is a progression in tau,
\* and beta_g2 has the scalar of beta_tau_g1[0]
WellFormed(acc, tau) ==
    /\ acc.tau_powers_g1[1] = G1Generator
    /\ acc.tau_powers_g2[1] = G2Generator
    /\ IsProgression(acc.tau_powers_g1, tau)
    /\ IsProgression(acc.tau_powers_g2, tau)
    /\ IsProgression(acc.alpha_tau_powers_g1, tau)
    /\ IsProgression(acc.beta_tau_powers_g1, tau)
    /\ \E b \in Fr : /\ acc.beta_g2 = Mul(G2Generator, b)
                     /\ acc.beta_tau_powers_g1[1] = Mul(G1Generator, b)

\* C4: the accumulator a chain of transforms yields is the one a single
\* transform with the product of the keys yields, from any accumulator; and
\* from the identity accumulator it keeps the generators in slot 0, every
\* vector a progression in the same tau, and beta_g2 with the scalar of
\* beta_tau_g1[0].
C4_ChainIsOneTransform ==
    ~ch_panic =>
        /\ \A w \in Cpus :
              LET t == transform(ch_start, ch_key, w)
              IN  ~t.panic => t.val = ch_acc
        /\ ch_start = Accumulator_new => WellFormed(ch_acc, ch_key.tau)

\* a chain of the longest length from the identity, whose product of taus
\* and of betas is neither 0 nor 1
C4_Witness ==
    /\ ch_n = MaxChain /\ ~ch_panic
    /\ ch_start = Accumulator_new
    /\ ch_key.tau \notin {Zero, One}
    /\ ch_key.beta \notin {Zero, One}

---------------------------------------------------------------------------
(* Verification of arbitrary input: the accumulators and the public key    *)
(* verify_transform is given are deserialized from files, and need not be  *)
(* the ones a contributor read and wrote                                   *)

\* every accumulator a chain of transforms reaches from the identity
ReachableAccumulators ==
    {transform(Accumulator_new, key, 1).val : key \in PrivateKeys}

\* acc with one vector cut to a shorter length, or one point longer
Resized(acc) ==
    {[acc EXCEPT !.tau_powers_g1 = SubSeq(@, 1, n)] :
        n \in 0 .. (Len(acc.tau_powers_g1) - 1)}
    \cup {[acc EXCEPT !.tau_powers_g2 = SubSeq(@, 1, n)] :
        n \in 0 .. (Len(acc.tau_powers_g2) - 1)}
    \cup {[acc EXCEPT !.alpha_tau_powers_g1 = SubSeq(@, 1, n)] :
        n \in 0 .. (Len(acc.alpha_tau_powers_g1) - 1)}
    \cup {[acc EXCEPT !.beta_tau_powers_g1 = SubSeq(@, 1, n)] :
        n \in 0 .. (Len(acc.beta_tau_powers_g1) - 1)}
    \cup {[acc EXCEPT !.tau_powers_g1 = Append(@, p)] : p \in G1}
    \cup {[acc EXCEPT !.tau_powers_g2 = Append(@, p)] : p \in G2}
    \cup {[acc EXCEPT !.alpha_tau_powers_g1 = Append(@, p)] : p \in G1}
    \cup {[acc EXCEPT !.beta_tau_powers_g1 = Append(@, p)] : p \in G1}

\* the public keys that differ from key in one point
OnePointChanged(key) ==
    ( {[key EXCEPT !.tau_g1[i] = p] : i \in 1 .. 2, p \in G1}
      \cup {[key EXCEPT !.alpha_g1[i] = p] : i \in 1 .. 2, p \in G1}
      \cup {[key EXCEPT !.beta_g1[i] = p] : i \in 1 .. 2, p \in G1}
      \cup {[key EXCEPT !.tau_g2 = p] : p \in G2}
      \cup {[key EXCEPT !.alpha_g2 = p] : p \in G2}
      \cup {[key EXCEPT !.beta_g2 = p] : p \in G2} ) \ {key}

InitSound ==
    /\ before \in ReachableAccumulators
    /\ after = before
    /\ pk = PublicKey_default
    /\ sk = PrivateKey(Zero, Zero, Zero)
    /\ digest = blank_hash
    /\ vdigest = blank_hash
    /\ phase = "idle"
    /\ verdict = "none"
    /\ edited = FALSE
    /\ RatioIdle /\ PowerIdle /\ ChainIdle /\ DriverIdle /\ RestIdle

\* keypair on the first transcript's digest, rng yielding one point s for
\* the three proofs of knowledge
KeypairSound ==
    KeypairFrom({Blake2b(<<Tok("u8", 0)>>)}, {<<s, s, s>> : s \in G1Rand})

\* the response handed to the verifier differs in one point from the one
\* the contributor computed
EditAfter ==
    /\ phase = "transformed" /\ ~edited
    /\ after' \in OneSlotChanged(after)
    /\ edited' = TRUE
    /\ UNCHANGED <<before, pk, sk, digest, vdigest, phase, verdict, notRound>>

\* a vector of the response is deserialized with another length
ResizeAfter ==
    /\ phase = "transformed" /\ ~edited
    /\ after' \in Resized(after)
    /\ edited' = TRUE
    /\ UNCHANGED <<before, pk, sk, digest, vdigest, phase, verdict, notRound>>

\* the challenge handed to the verifier differs in one point from the one
\* the contributor read
EditBefore ==
    /\ phase = "transformed" /\ ~edited
    /\ before' \in OneSlotChanged(before)
    /\ edited' = TRUE
    /\ UNCHANGED <<after, pk, sk, digest, vdigest, phase, verdict, notRound>>

\* the public key handed to the verifier differs in one point from the one
\* keypair returned
EditKey ==
    /\ phase = "transformed" /\ ~edited
    /\ pk' \in OnePointChanged(pk)
    /\ edited' = TRUE
    /\ UNCHANGED <<before, after, sk, digest, vdigest, phase, verdict,
                   notRound>>

NextSound ==
    \/ KeypairSound
    \/ Transform
    \/ EditAfter
    \/ ResizeAfter
    \/ EditBefore
    \/ EditKey
    \/ VerifyHead
    \/ VerifyTauG1
    \/ VerifyTauG2
    \/ VerifyAlpha
    \/ VerifyBeta

SpecSound == InitSound /\ [][NextSound]_vars

\* the scalars of key relate pubkey.x_g1.0 to pubkey.x_g1.1 and the hashed
\* point of x to pubkey.x_g2, for x = tau, alpha, beta
KeyConsistent(key, pubkey, d) ==
    /\ pubkey.tau_g1[2] = Mul(pubkey.tau_g1[1], key.tau)
    /\ pubkey.tau_g2
         = Mul(compute_g2_s(pubkey.tau_g1[1], pubkey.tau_g1[2], 0, d), key.tau)
    /\ pubkey.alpha_g1[2] = Mul(pubkey.alpha_g1[1], key.alpha)
    /\ pubkey.alpha_g2
         = Mul(compute_g2_s(pubkey.alpha_g1[1], pubkey.alpha_g1[2], 1, d),
               key.alpha)
    /\ pubkey.beta_g1[2] = Mul(pubkey.beta_g1[1], key.beta)
    /\ pubkey.beta_g2
         = Mul(compute_g2_s(pubkey.beta_g1[1], pubkey.beta_g1[2], 2, d),
               key.beta)

\* a is b.transform(key), in every slot of the five fields
IsTransformOf(b, a, key) ==
    \E w \in Cpus : LET t == transform(b, key, w) IN ~t.panic /\ t.val = a

\* a is b.transform(key) for scalars consistent with pubkey
SomeKeyExplains(b, a, pubkey, d) ==
    \E key \in PrivateKeys :
        KeyConsistent(key, pubkey, d) /\ IsTransformOf(b, a, key)

\* verify_transform(b, a, pubkey, d) returns true whatever coefficients
\* merge_pairs draws
AcceptsEveryDraw(b, a, pubkey, d) ==
    /\ verify_head(b, a, pubkey, d) = "continue"
    /\ \A w \in Cpus :
          /\ \A rho \in Coeffs(a.tau_powers_g1) :
                verify_tau_g1(a, rho, w) = "continue"
          /\ \A rho \in Coeffs(a.tau_powers_g2) :
                verify_tau_g2(a, rho, w) = "continue"
          /\ \A rho \in Coeffs(a.alpha_tau_powers_g1) :
                verify_alpha(a, rho, w) = "continue"
          /\ \A rho \in Coeffs(a.beta_tau_powers_g1) :
                verify_beta(a, rho, w) = "true"

\* C2 as stated, read up to the soundness error of the pairing checks: when
\* verify_transform has returned true, and would have for every draw of the
\* coefficients, there are scalars consistent with pk for which after is
\* before.transform in every slot of the five fields; and verify_transform
\* does not reject an after for which there are.
C2_TrueIffSomeKeyExplains ==
    /\ ( /\ phase = "done" /\ verdict = "true"
         /\ AcceptsEveryDraw(before, after, pk, vdigest) )
       => SomeKeyExplains(before, after, pk, vdigest)
    /\ (phase = "done" /\ SomeKeyExplains(before, after, pk, vdigest))
       => verdict = "true"

\* the four vectors of a have the lengths of those of b
SameLengths(b, a) ==
    /\ Len(a.tau_powers_g1) = Len(b.tau_powers_g1)
    /\ Len(a.tau_powers_g2) = Len(b.tau_powers_g2)
    /\ Len(a.alpha_tau_powers_g1) = Len(b.alpha_tau_powers_g1)
    /\ Len(a.beta_tau_powers_g1) = Len(b.beta_tau_powers_g1)

\* C2, what the code does guarantee: for a challenge reachable from the
\* identity and a response with vectors of the challenge's lengths that is
\* accepted for every draw, some scalars consistent with pk explain the four
\* vectors of the response, and its beta_g2 too unless the challenge's
\* beta_tau_powers_g1[0] is the identity.
C2_SoundForFullLengthResponses ==
    ( /\ phase = "done" /\ verdict = "true"
      /\ before \in ReachableAccumulators
      /\ SameLengths(before, after)
      /\ AcceptsEveryDraw(before, after, pk, vdigest) )
    => \E key \in PrivateKeys :
          /\ KeyConsistent(key, pk, vdigest)
          /\ \E w \in Cpus :
                LET t == transform(before, key, w)
                IN  /\ ~t.panic
                    /\ after.tau_powers_g1 = t.val.tau_powers_g1
                    /\ after.tau_powers_g2 = t.val.tau_powers_g2
                    /\ after.alpha_tau_powers_g1 = t.val.alpha_tau_powers_g1
                    /\ after.beta_tau_powers_g1 = t.val.beta_tau_powers_g1
                    /\ before.beta_tau_powers_g1[1] # Zero
                          => after.beta_g2 = t.val.beta_g2

\* C8 as stated: verify_transform never panics, whatever the lengths of the
\* vectors of the accumulators it is given.
C8_NeverPanics == verdict # "panic"

---------------------------------------------------------------------------
(* One run of main on a file system *)

\* the steps of main, in their order
Steps ==
    <<"demo", "output", "create_challenge", "write_challenge",
      "flush_challenge", "rng", "open_challenge", "create_response",
      "read_hash", "deserialize", "into_hash", "keypair", "transform",
      "write_hash", "write_accumulator", "write_public_key", "finish",
      "end">>

StepIndex(p) == CHOOSE i \in 1 .. Len(Steps) : Steps[i] = p

\* the step goes through, or it panics and main unwinds
Advance == pc' = Steps[StepIndex(pc) + 1] /\ status' = "running"
Abort == pc' = pc /\ status' = "unwinding"

At(p) == status = "running" /\ pc = p

\* the files a run can find in its directory
ChallengeFiles ==
    {NoFile, File(<<>>), File(<<Tok("hash", blank_hash)>>),
     File(FreshChallenge)}
ResponseFiles ==
    {NoFile, File(<<>>), File(<<Tok("hash", Blake2b(FreshChallenge))>>)}
OutputFiles == {NoFile, File(<<Tok("u8", 0)>>)}

InitDriver ==
    /\ fs \in [output : OutputFiles, challenge : ChallengeFiles,
               response : ResponseFiles]
    /\ fs0 = fs
    /\ pc = "demo" /\ status = "running"
    /\ cbuf = <<>> /\ rbuf = <<>>
    /\ rd_pos = 0 /\ rd_hashed = <<>> /\ wr_hashed = <<>>
    /\ current_accumulator = <<>> /\ current_accumulator_hash = <<>>
    /\ keypair_digest = <<>> /\ pub_key = <<>> /\ priv_key = <<>>
    /\ RatioIdle /\ PowerIdle /\ RoundIdle /\ ChainIdle /\ RestIdle

\* lines 558-603: the same_ratio and power_pairs checks; the second assert
\* panics when the tampered vector passes
Demo ==
    /\ At("demo")
    /\ \E x \in Fr : \E r \in Fr :
       \E rho \in Coeffs(TamperedPowers(x, r, MaxVecLen)) : \E w \in Cpus :
          IF PowerCheck(TamperedPowers(x, r, MaxVecLen), x, rho, w)
          THEN Abort ELSE Advance
    /\ UNCHANGED <<fs, fs0, ioVars, memVars, srVars, ppVars, cerVars, chVars, xVars>>

\* lines 608-626: File::create("output.txt") and the lines written to it
WriteOutput ==
    /\ At("output")
    /\ \E ok \in BOOLEAN : \E n \in 0 .. 1 :
          /\ fs' = [fs EXCEPT !.output =
                       File(SubSeq(<<Tok("u8", 1)>>, 1, IF ok THEN 1 ELSE n))]
          /\ IF ok THEN Advance ELSE Abort
    /\ UNCHANGED <<fs0, ioVars, memVars, srVars, ppVars, cerVars, chVars, xVars>>

\* lines 630-635: `./challenge` opened with create_new
CreateChallenge ==
    /\ At("create_challenge")
    /\ LET f == create_new(fs.challenge)
       IN  IF f.panic THEN Abort /\ UNCHANGED fs
           ELSE Advance /\ fs' = [fs EXCEPT !.challenge = f.val]
    /\ UNCHANGED <<fs0, ioVars, memVars, srVars, ppVars, cerVars, chVars, xVars>>

\* lines 637-645: the blank hash and the fresh accumulator written to the
\* BufWriter, which passes a part of what it holds on to the file; an I/O
\* error panics
WriteChallenge ==
    /\ At("write_challenge")
    /\ \E ok \in BOOLEAN : \E n \in 0 .. Len(FreshChallenge) :
          /\ fs' = [fs EXCEPT !.challenge.data = SubSeq(FreshChallenge, 1, n)]
          /\ cbuf' = IF ok
                     THEN SubSeq(FreshChallenge, n + 1, Len(FreshChallenge))
                     ELSE <<>>
          /\ IF ok THEN Advance ELSE Abort
    /\ UNCHANGED <<fs0, rbuf, rd_pos, rd_hashed, wr_hashed, memVars,
                   srVars, ppVars, cerVars, chVars, xVars>>

\* line 647: writer.flush()
FlushChallenge ==
    /\ At("flush_challenge")
    /\ \E ok \in BOOLEAN : \E n \in 0 .. Len(cbuf) :
          /\ fs' = [fs EXCEPT !.challenge.data =
                       @ \o SubSeq(cbuf, 1, IF ok THEN Len(cbuf) ELSE n)]
          /\ cbuf' = <<>>
          /\ IF ok THEN Advance ELSE Abort
    /\ UNCHANGED <<fs0, rbuf, rd_pos, rd_hashed, wr_hashed, memVars,
                   srVars, ppVars, cerVars, chVars, xVars>>

\* lines 655-687: the generator seeded from the system and from a line of
\* standard input
MakeRng ==
    /\ At("rng")
    /\ \E ok \in BOOLEAN : IF ok THEN Advance ELSE Abort
    /\ UNCHANGED <<fs, fs0, ioVars, memVars, srVars, ppVars, cerVars, chVars, xVars>>

\* lines 699-718: `./challenge` opened for reading, its size checked
OpenChallenge ==
    /\ At("open_challenge")
    /\ IF /\ fs.challenge.exists
          /\ ByteLength(fs.challenge.data) = accumulator_byte_size_with_hash
       THEN Advance ELSE Abort
    /\ rd_pos' = 0
    /\ rd_hashed' = <<>>
    /\ UNCHANGED <<fs, fs0, cbuf, rbuf, wr_hashed, memVars,
                   srVars, ppVars, cerVars, chVars, xVars>>

\* lines 721-729: `./response` opened with create_new
CreateResponse ==
    /\ At("create_response")
    /\ LET f == create_new(fs.response)
       IN  IF f.panic THEN Abort /\ UNCHANGED fs
           ELSE Advance /\ fs' = [fs EXCEPT !.response = f.val]
    /\ UNCHANGED <<fs0, ioVars, memVars, srVars, ppVars, cerVars, chVars, xVars>>

\* lines 737-740: read_exact of the 64 bytes of the previous hash, through
\* the HashReader
ReadPreviousHash ==
    /\ At("read_hash")
    /\ IF /\ rd_pos < Len(fs.challenge.data)
          /\ SizeOf(fs.challenge.data[rd_pos + 1]) = 64
       THEN /\ rd_hashed' = Append(rd_hashed, fs.challenge.data[rd_pos + 1])
            /\ rd_pos' = rd_pos + 1
            /\ Advance
       ELSE Abort /\ UNCHANGED <<rd_pos, rd_hashed>>
    /\ UNCHANGED <<fs, fs0, cbuf, rbuf, wr_hashed, memVars,
                   srVars, ppVars, cerVars, chVars, xVars>>

\* lines 744-746: the accumulator read through the HashReader
DeserializeAccumulator ==
    /\ At("deserialize")
    /\ LET r == deserialize_with_mode(fs.challenge.data, rd_pos)
       IN  IF r.ok
           THEN /\ current_accumulator' = <<r.val>>
                /\ rd_hashed' = rd_hashed
                      \o SubSeq(fs.challenge.data, rd_pos + 1, r.pos)
                /\ rd_pos' = r.pos
                /\ Advance
           ELSE Abort /\ UNCHANGED <<current_accumulator, rd_pos, rd_hashed>>
    /\ UNCHANGED <<fs, fs0, cbuf, rbuf, wr_hashed, current_accumulator_hash,
                   keypair_digest, pub_key, priv_key,
                   srVars, ppVars, cerVars, chVars, xVars>>

\* line 749: reader.into_hash()
ReaderIntoHash ==
    /\ At("into_hash")
    /\ current_accumulator_hash' = <<into_hash(rd_hashed)>>
    /\ Advance
    /\ UNCHANGED <<fs, fs0, ioVars, current_accumulator, keypair_digest,
                   pub_key, priv_key, srVars, ppVars, cerVars, chVars, xVars>>

\* line 752: keypair(&mut rng, current_accumulator_hash.as_ref())
DriverKeypair ==
    /\ At("keypair")
    /\ \E key \in PrivateKeys : \E s \in G1Rand \X G1Rand \X G1Rand :
          /\ keypair_digest' = current_accumulator_hash
          /\ pub_key' = <<keypair(key, s, current_accumulator_hash[1])>>
          /\ priv_key' = <<key>>
    /\ Advance
    /\ UNCHANGED <<fs, fs0, ioVars, current_accumulator,
                   current_accumulator_hash, srVars, ppVars, cerVars, chVars, xVars>>

\* line 756: current_accumulator.transform(&priv_key)
DriverTransform ==
    /\ At("transform")
    /\ \E w \in Cpus :
          LET t == transform(current_accumulator[1], priv_key[1], w)
          IN  IF t.panic THEN Abort /\ UNCHANGED current_accumulator
              ELSE Advance /\ current_accumulator' = <<t.val>>
    /\ UNCHANGED <<fs, fs0, ioVars, current_accumulator_hash, keypair_digest,
                   pub_key, priv_key, srVars, ppVars, cerVars, chVars, xVars>>

\* writer.write_all(bytes) on the HashWriter of `./response`: the BufWriter
\* passes a part of what it holds on to the file, and the hasher absorbs what
\* the BufWriter took; an I/O error panics
WriteAll(bytes) ==
    \E ok \in BOOLEAN : \E n \in 0 .. Len(rbuf \o bytes) :
        /\ fs' = [fs EXCEPT !.response.data = @ \o SubSeq(rbuf \o bytes, 1, n)]
        /\ rbuf' = SubSeq(rbuf \o bytes, n + 1, Len(rbuf \o bytes))
        /\ wr_hashed' = wr_hashed \o bytes
        /\ IF ok THEN Advance ELSE Abort

\* lines 760-762: the hash of the input accumulator
WriteInputHash ==
    /\ At("write_hash")
    /\ WriteAll(<<Tok("hash", current_accumulator_hash[1])>>)
    /\ UNCHANGED <<fs0, cbuf, rd_pos, rd_hashed, memVars,
                   srVars, ppVars, cerVars, chVars, xVars>>

\* lines 766-768: the transformed accumulator, compressed
WriteAccumulator ==
    /\ At("write_accumulator")
    /\ WriteAll(serialize_accumulator(current_accumulator[1], "Yes"))
    /\ UNCHANGED <<fs0, cbuf, rd_pos, rd_hashed, memVars,
                   srVars, ppVars, cerVars, chVars, xVars>>

\* lines 771-773: the public key, uncompressed
WritePublicKey ==
    /\ At("write_public_key")
    /\ WriteAll(serialize_public_key(pub_key[1]))
    /\ UNCHANGED <<fs0, cbuf, rd_pos, rd_hashed, memVars,
                   srVars, ppVars, cerVars, chVars, xVars>>

\* lines 776-795: writer.into_hash() drops the BufWriter, which flushes what
\* it can and ignores an error; the hash is printed and main returns
Finish ==
    /\ At("finish")
    /\ \E n \in 0 .. Len(rbuf) :
          fs' = [fs EXCEPT !.response.data = @ \o SubSeq(rbuf, 1, n)]
    /\ rbuf' = <<>>
    /\ pc' = "end"
    /\ status' = "completed"
    /\ UNCHANGED <<fs0, cbuf, rd_pos, rd_hashed, wr_hashed, memVars,
                   srVars, ppVars, cerVars, chVars, xVars>>

\* a panic unwinds main: the BufWriters are dropped, and each flushes what
\* it can of what it holds
Unwind ==
    /\ status = "unwinding"
    /\ \E n \in 0 .. Len(cbuf) : \E m \in 0 .. Len(rbuf) :
          fs' = [fs EXCEPT !.challenge.data = @ \o SubSeq(cbuf, 1, n),
                           !.response.data = @ \o SubSeq(rbuf, 1, m)]
    /\ cbuf' = <<>>
    /\ rbuf' = <<>>
    /\ status' = "aborted"
    /\ UNCHANGED <<fs0, pc, rd_pos, rd_hashed, wr_hashed, memVars,
                   srVars, ppVars, cerVars, chVars, xVars>>

\* the process is killed: nothing more is written
Die ==
    /\ status \in {"running", "unwinding"}
    /\ status' = "dead"
    /\ UNCHANGED <<fs, fs0, pc, ioVars, memVars,
                   srVars, ppVars, cerVars, chVars, xVars>>

NextDriver ==
    \/ Demo
    \/ WriteOutput
    \/ CreateChallenge
    \/ WriteChallenge
    \/ FlushChallenge
    \/ MakeRng
    \/ OpenChallenge
    \/ CreateResponse
    \/ ReadPreviousHash
    \/ DeserializeAccumulator
    \/ ReaderIntoHash
    \/ DriverKeypair
    \/ DriverTransform
    \/ WriteInputHash
    \/ WriteAccumulator
    \/ WritePublicKey
    \/ Finish
    \/ Unwind
    \/ Die

SpecDriver == InitDriver /\ [][NextDriver]_vars

\* main is at step p or before it
NotPast(p) == StepIndex(pc) <= StepIndex(p)

\* C9: a `./challenge` and a `./response` that existed before the run have
\* the same contents at every step of it and after it, whether the run
\* returns, panics or is killed; the run does not go past the create_new
\* open of a file that existed.
C9_NoOverwrite ==
    /\ fs0.challenge.exists =>
          /\ fs.challenge = fs0.challenge
          /\ NotPast("create_challenge")
          /\ status # "completed"
    /\ fs0.response.exists =>
          /\ fs.response = fs0.response
          /\ NotPast("create_response")
          /\ status # "completed"

\* a run that wrote its `./challenge` has panicked at the create_new open
\* of a `./response` that held a previous response, and left it as it was
C9_Witness ==
    /\ status = "aborted" /\ pc = "create_response"
    /\ fs0.response.exists /\ fs0.response.data # <<>>
    /\ fs.response = fs0.response
    /\ ~fs0.challenge.exists
    /\ fs.challenge = File(FreshChallenge)

\* a is the beginning of b
IsPrefix(a, b) == Len(a) <= Len(b) /\ SubSeq(b, 1, Len(a)) = a

\* C10: once the digest is finalized the HashReader has absorbed every byte
\* of `./challenge`, the 64 bytes of the previous hash and an accumulator
\* that ends where the file ends; that digest is the one keypair is given,
\* the one the public key is bound to, and the first 64 bytes written to
\* `./response`; a run that completes has written the digest, the compressed
\* accumulator and the uncompressed public key in this order, and the file
\* holds the beginning of them; nothing is written to `./response` before
\* transform has returned.
C10_HashChainBinding ==
    /\ current_accumulator_hash # <<>> =>
          /\ rd_hashed = fs.challenge.data
          /\ rd_pos = Len(fs.challenge.data)
          /\ SizeOf(Head(rd_hashed)) = 64
          /\ LET r == deserialize_with_mode(rd_hashed, 1)
             IN  r.ok /\ r.pos = Len(rd_hashed)
          /\ current_accumulator_hash[1] = Blake2b(fs.challenge.data)
    /\ keypair_digest # <<>> =>
          /\ keypair_digest = current_accumulator_hash
          /\ KeyConsistent(priv_key[1], pub_key[1], keypair_digest[1])
    /\ wr_hashed # <<>> => Head(wr_hashed) = Tok("hash", keypair_digest[1])
    /\ status = "completed" =>
          /\ wr_hashed
               = <<Tok("hash", current_accumulator_hash[1])>>
                 \o serialize_accumulator(current_accumulator[1], "Yes")
                 \o serialize_public_key(pub_key[1])
          /\ IsPrefix(fs.response.data, wr_hashed)
    /\ NotPast("transform") =>
          /\ wr_hashed = <<>>
          /\ rbuf = <<>>
          /\ ~fs0.response.exists => fs.response.data = <<>>

\* a run has completed with the whole response in the file, made with a tau
\* that is neither 0 nor 1
C10_Witness ==
    /\ status = "completed"
    /\ fs.response.data = wr_hashed
    /\ priv_key[1].tau \notin {Zero, One}
    /\ priv_key[1].beta \notin {Zero, One}

---------------------------------------------------------------------------
(* HashReader and HashWriter on a stream that transfers a byte string in   *)
(* parts                                                                   *)

\* the byte strings of up to MaxBytes bytes; a buffer starts filled with 0
\* (let mut tmp = [0; 64]), so the bytes of the strings are not 0
ByteStrings ==
    UNION {[1 .. n -> {Tok("u8", 1), Tok("u8", 2)}] : n \in 0 .. MaxBytes}

\* a buffer of k bytes holding 0
ZeroBuf(k) == [i \in 1 .. k |-> Tok("u8", 0)]

\* the hasher absorbing the whole buffer, whatever the stream transferred
hash_whole_buffer(hasher, buf, ret) ==
    IF ret.err THEN hasher ELSE hasher \o buf

\* HashReader::read and HashWriter::write after the call of the underlying
\* stream returned ret: an error is passed on by `?`, and the hasher absorbs
\* buf[0..bytes] if bytes > 0
hash_transferred(hasher, buf, ret) ==
    IF ret.err THEN hasher
    ELSE IF ret.n > 0 THEN hasher \o SubSeq(buf, 1, ret.n)
    ELSE hasher

\* HashReader::new(reader) or HashWriter::new(writer) on a stream that is to
\* transfer x
InitStream ==
    /\ hs_x \in ByteStrings
    /\ hs_mode \in {"read", "write"}
    /\ hs_pos = 0
    /\ hs_hasher = <<>> /\ hs_prev = <<>> /\ hs_buf = <<>>
    /\ hs_ret = IoOk(0)
    /\ hs_digest = <<>>
    /\ RatioIdle /\ PowerIdle /\ RoundIdle /\ ChainIdle /\ DriverIdle
    /\ MergeIdle /\ TransformIdle

\* HashReader::read(buf) with a buffer of k bytes: the underlying reader
\* fails, or puts the next n bytes of x at the beginning of buf
HashReaderRead ==
    /\ hs_mode = "read" /\ hs_digest = <<>>
    /\ \E k \in 1 .. MaxBuf : \E ok \in BOOLEAN :
       \E n \in 0 .. Min(k, Len(hs_x) - hs_pos) :
          LET ret == IF ok THEN IoOk(n) ELSE IoErr
              buf == IF ok
                     THEN SubSeq(hs_x, hs_pos + 1, hs_pos + n)
                          \o ZeroBuf(k - n)
                     ELSE ZeroBuf(k)
          IN  /\ hs_buf' = buf
              /\ hs_ret' = ret
              /\ hs_pos' = hs_pos + ret.n
              /\ hs_prev' = hs_hasher
              /\ hs_hasher' = hash_transferred(hs_hasher, buf, ret)
    /\ UNCHANGED <<hs_x, hs_mode, hs_digest, oldVars, mgVars, tfVars>>

\* HashWriter::write(buf) with the next k bytes that remain of x (fewer at
\* its end): the underlying writer fails, or takes the first n bytes of buf
HashWriterWrite ==
    /\ hs_mode = "write" /\ hs_digest = <<>>
    /\ \E k \in 0 .. Min(MaxBuf, Len(hs_x) - hs_pos) : \E ok \in BOOLEAN :
       \E n \in 0 .. k :
          LET ret == IF ok THEN IoOk(n) ELSE IoErr
              buf == SubSeq(hs_x, hs_pos + 1, hs_pos + k)
          IN  /\ hs_buf' = buf
              /\ hs_ret' = ret
              /\ hs_pos' = hs_pos + ret.n
              /\ hs_prev' = hs_hasher
              /\ hs_hasher' = hash_transferred(hs_hasher, buf, ret)
    /\ UNCHANGED <<hs_x, hs_mode, hs_digest, oldVars, mgVars, tfVars>>

\* into_hash(self): the hasher is finalized and the stream dropped
StreamIntoHash ==
    /\ hs_mode \in {"read", "write"} /\ hs_digest = <<>>
    /\ hs_digest' = <<into_hash(hs_hasher)>>
    /\ UNCHANGED <<hs_x, hs_mode, hs_pos, hs_hasher, hs_prev, hs_buf,
                   hs_ret, oldVars, mgVars, tfVars>>

NextStream == HashReaderRead \/ HashWriterWrite \/ StreamIntoHash

SpecStream == InitStream /\ [][NextStream]_vars

\* C11: the hasher of a HashReader and of a HashWriter holds exactly the
\* bytes the underlying stream reported as transferred, each once and in
\* their order, however the stream splits the byte string; a call that
\* returns an error leaves the hasher as it was; and into_hash returns
\* BLAKE2b of the transferred bytes, which is BLAKE2b(x) once all of x was
\* read or written.
C11_HashOfTransferredBytes ==
    /\ hs_hasher = SubSeq(hs_x, 1, hs_pos)
    /\ hs_ret.err => hs_hasher = hs_prev
    /\ hs_digest # <<>> =>
          /\ hs_digest[1] = Blake2b(SubSeq(hs_x, 1, hs_pos))
          /\ hs_pos = Len(hs_x) => hs_digest[1] = Blake2b(hs_x)

\* all of a string of the longest length was transferred in more than one
\* call, one of which failed or transferred less than the buffer, and the
\* digest is that of the string
C11_Witness ==
    /\ Len(hs_x) = MaxBytes /\ hs_pos = Len(hs_x)
    /\ hs_digest = <<Blake2b(hs_x)>>
    /\ hs_ret.n < Len(hs_buf)
    /\ hs_prev # <<>>

---------------------------------------------------------------------------
(* merge_pairs with its workers: one task per chunk, interleaved in any    *)
(* order, adding to the two sums under their locks                         *)

\* the slices power_pairs hands to merge_pairs: &v[0..(v.len() - 1)] and
\* &v[1..], which panic on an empty vector
slices(v) ==
    IF Len(v) = 0 THEN Panicked
    ELSE Returned(<<SubSeq(v, 1, Len(v) - 1), SubSeq(v, 2, Len(v))>>)

\* par_chunks dropping a last chunk that is not full
ChunkCount_full_only(n, chunk_size) == n \div chunk_size

\* the number of chunks par_chunks(chunk_size) makes of n elements
ChunkCount(n, chunk_size) == (n + chunk_size - 1) \div chunk_size

\* the indexes of chunk c
ChunkLo(c) == (c - 1) * mg_cs + 1
ChunkHi(c) == Min(c * mg_cs, Len(mg_v1))

\* a call of merge_pairs(v1, v2) with vectors of up to MaxMergeLen elements,
\* or of power_pairs(v) with a vector of up to MaxVecLen + 1
InitMerge ==
    /\ \/ /\ mg_call = "merge_pairs"
          /\ mg_v = <<>>
          /\ mg_v1 \in VectorsUpTo(G1, MaxMergeLen)
          /\ mg_v2 \in VectorsUpTo(G1, MaxMergeLen)
       \/ /\ mg_call = "power_pairs"
          /\ mg_v \in VectorsUpTo(G1, MaxVecLen + 1)
          /\ mg_v1 = <<>>
          /\ mg_v2 = <<>>
    /\ mg_w \in Cpus
    /\ mg_cs = 0
    /\ mg_rho = <<>>
    /\ mg_pc = <<>>
    /\ mg_local = <<>>
    /\ mg_s = Zero /\ mg_sx = Zero
    /\ mg_lock_s = 0 /\ mg_lock_sx = 0
    /\ mg_status = "called"
    /\ mg_out = <<Zero, Zero>>
    /\ RatioIdle /\ PowerIdle /\ RoundIdle /\ ChainIdle /\ DriverIdle
    /\ StreamIdle /\ TransformIdle

\* lines 88-95 (and 132 for power_pairs): the slices, the assert_eq on the
\* lengths, the chunk size and the two sums
MergeEnter ==
    /\ mg_status = "called"
    /\ LET sl == IF mg_call = "power_pairs" THEN slices(mg_v)
                 ELSE Returned(<<mg_v1, mg_v2>>)
       IN  IF sl.panic \/ Len(sl.val[1]) # Len(sl.val[2])
           THEN /\ mg_status' = "panicked"
                /\ UNCHANGED <<mg_v1, mg_v2, mg_cs, mg_rho, mg_pc, mg_local>>
           ELSE LET n == Len(sl.val[1])
                    chunk_size == (n \div mg_w) + 1
                    chunks == ChunkCount(n, chunk_size)
                IN  /\ mg_v1' = sl.val[1]
                    /\ mg_v2' = sl.val[2]
                    /\ mg_cs' = chunk_size
                    /\ mg_rho' = [i \in 1 .. n |-> Zero]
                    /\ mg_pc' = [c \in 1 .. chunks |-> "start"]
                    /\ mg_local' = [c \in 1 .. chunks |-> <<Zero, Zero>>]
                    /\ mg_status' = "running"
    /\ UNCHANGED <<mg_call, mg_v, mg_w, mg_s, mg_sx, mg_lock_s, mg_lock_sx,
                   mg_out, oldVars, hsVars, tfVars>>

\* lines 99-117: the loop of the task of chunk c, which draws a coefficient
\* for each index and multiplies both points by it
MergeLoop(c) ==
    /\ mg_status = "running" /\ mg_pc[c] = "start"
    /\ \E rho \in Vectors(Fr, Len(mg_v1)) :
          /\ \A i \in 1 .. Len(mg_v1) :
                (i < ChunkLo(c) \/ i > ChunkHi(c)) => rho[i] = mg_rho[i]
          /\ mg_rho' = rho
          /\ mg_local' = [mg_local EXCEPT ![c] =
                <<ChunkSum(mg_v1, rho, ChunkLo(c), ChunkHi(c)),
                  ChunkSum(mg_v2, rho, ChunkLo(c), ChunkHi(c))>>]
    /\ mg_pc' = [mg_pc EXCEPT ![c] = "computed"]
    /\ UNCHANGED <<mg_call, mg_v, mg_v1, mg_v2, mg_w, mg_cs, mg_s, mg_sx,
                   mg_lock_s, mg_lock_sx, mg_status, mg_out, oldVars, hsVars, tfVars>>

\* line 119: s.lock()
MergeLockS(c) ==
    /\ mg_status = "running" /\ mg_pc[c] = "computed"
    /\ mg_lock_s = 0
    /\ mg_lock_s' = c
    /\ mg_pc' = [mg_pc EXCEPT ![c] = "in_s"]
    /\ UNCHANGED <<mg_call, mg_v, mg_v1, mg_v2, mg_w, mg_cs, mg_rho, mg_local,
                   mg_s, mg_sx, mg_lock_sx, mg_status, mg_out, oldVars,
                   hsVars, tfVars>>

\* line 119: += local_s, and the guard dropped
MergeAddS(c) ==
    /\ mg_status = "running" /\ mg_pc[c] = "in_s"
    /\ mg_s' = Add(mg_s, mg_local[c][1])
    /\ mg_lock_s' = 0
    /\ mg_pc' = [mg_pc EXCEPT ![c] = "added_s"]
    /\ UNCHANGED <<mg_call, mg_v, mg_v1, mg_v2, mg_w, mg_cs, mg_rho, mg_local,
                   mg_sx, mg_lock_sx, mg_status, mg_out, oldVars, hsVars, tfVars>>

\* line 120: sx.lock()
MergeLockSx(c) ==
    /\ mg_status = "running" /\ mg_pc[c] = "added_s"
    /\ mg_lock_sx = 0
    /\ mg_lock_sx' = c
    /\ mg_pc' = [mg_pc EXCEPT ![c] = "in_sx"]
    /\ UNCHANGED <<mg_call, mg_v, mg_v1, mg_v2, mg_w, mg_cs, mg_rho, mg_local,
                   mg_s, mg_sx, mg_lock_s, mg_status, mg_out, oldVars,
                   hsVars, tfVars>>

\* line 120: += local_sx, and the guard dropped
MergeAddSx(c) ==
    /\ mg_status = "running" /\ mg_pc[c] = "in_sx"
    /\ mg_sx' = Add(mg_sx, mg_local[c][2])
    /\ mg_lock_sx' = 0
    /\ mg_pc' = [mg_pc EXCEPT ![c] = "done"]
    /\ UNCHANGED <<mg_call, mg_v, mg_v1, mg_v2, mg_w, mg_cs, mg_rho, mg_local,
                   mg_s, mg_lock_s, mg_status, mg_out, oldVars, hsVars, tfVars>>

\* lines 123-126: for_each has returned, every task being done; the two sums
\* are locked, read and returned
MergeReturn ==
    /\ mg_status = "running"
    /\ \A c \in 1 .. Len(mg_pc) : mg_pc[c] = "done"
    /\ mg_lock_s = 0 /\ mg_lock_sx = 0
    /\ mg_out' = <<mg_s, mg_sx>>
    /\ mg_status' = "returned"
    /\ UNCHANGED <<mg_call, mg_v, mg_v1, mg_v2, mg_w, mg_cs, mg_rho, mg_pc,
                   mg_local, mg_s, mg_sx, mg_lock_s, mg_lock_sx, oldVars,
                   hsVars, tfVars>>

NextMerge ==
    \/ MergeEnter
    \/ \E c \in 1 .. Len(mg_pc) : MergeLoop(c)
    \/ \E c \in 1 .. Len(mg_pc) : MergeLockS(c)
    \/ \E c \in 1 .. Len(mg_pc) : MergeAddS(c)
    \/ \E c \in 1 .. Len(mg_pc) : MergeLockSx(c)
    \/ \E c \in 1 .. Len(mg_pc) : MergeAddSx(c)
    \/ MergeReturn

SpecMerge == InitMerge /\ [][NextMerge]_vars

\* the call is one on empty input: merge_pairs of two empty vectors, or
\* power_pairs of an empty or a one-element vector
EmptyInput ==
    \/ mg_call = "merge_pairs" /\ mg_v1 = <<>> /\ mg_v2 = <<>>
    \/ mg_call = "power_pairs" /\ Len(mg_v) <= 1

MergeEnded == mg_status \in {"returned", "panicked"}

\* C12 as stated: on empty input merge_pairs and power_pairs have one
\* outcome, the one merge_pairs has on two empty vectors: all panic, or all
\* return the identity pair.
C12_OneOutcomeOnEmptyInput ==
    (EmptyInput /\ MergeEnded) =>
        IF merge_pairs(<<>>, <<>>, <<>>, mg_w).panic
        THEN mg_status = "panicked"
        ELSE mg_status = "returned" /\ mg_out = <<Zero, Zero>>

\* C12, what the code does: merge_pairs of two empty vectors and power_pairs
\* of a one-element vector return the identity pair, and power_pairs of an
\* empty vector panics.
C12_EmptyVectorPanicsOnlyInPowerPairs ==
    (EmptyInput /\ MergeEnded) =>
        IF mg_call = "power_pairs" /\ mg_v = <<>>
        THEN mg_status = "panicked"
        ELSE mg_status = "returned" /\ mg_out = <<Zero, Zero>>

\* the sum of rho[i] * v[i] over every index of v
RECURSIVE LinearCombination(_, _)
LinearCombination(v, rho) ==
    IF v = <<>> THEN Zero
    ELSE Add(Mul(Head(v), Head(rho)), LinearCombination(Tail(v), Tail(rho)))

\* the local sums of the chunks 1..c that were added to the shared sum j
RECURSIVE AddedLocals(_, _)
AddedLocals(c, j) ==
    IF c = 0 THEN Zero
    ELSE Add(IF \/ mg_pc[c] = "done"
                \/ j = 1 /\ mg_pc[c] \in {"added_s", "in_sx"}
             THEN mg_local[c][j] ELSE Zero,
             AddedLocals(c - 1, j))

\* C13: in every interleaving of the tasks, for every number of CPUs, each
\* shared sum holds the local sums of the tasks that added to it, each once;
\* a local sum is the sum over its chunk with one coefficient per index for
\* both vectors; every index is in the chunk of exactly one task; a lock is held only by a task that is at its addition, its
\* multiplications done; and the call returns only after every task is done,
\* the pair (sum r_i*v1[i], sum r_i*v2[i]) over all indexes.
C13_InterleavingIndependent ==
    mg_status \in {"running", "returned"} =>
        /\ mg_s = AddedLocals(Len(mg_pc), 1)
        /\ mg_sx = AddedLocals(Len(mg_pc), 2)
        /\ \A c \in 1 .. Len(mg_pc) :
              /\ mg_pc[c] # "start" =>
                    mg_local[c]
                      = <<LinearCombination(
                              SubSeq(mg_v1, ChunkLo(c), ChunkHi(c)),
                              SubSeq(mg_rho, ChunkLo(c), ChunkHi(c))),
                          LinearCombination(
                              SubSeq(mg_v2, ChunkLo(c), ChunkHi(c)),
                              SubSeq(mg_rho, ChunkLo(c), ChunkHi(c)))>>
              /\ (mg_pc[c] = "in_s") <=> (mg_lock_s = c)
              /\ (mg_pc[c] = "in_sx") <=> (mg_lock_sx = c)
        /\ \A i \in 1 .. Len(mg_v1) :
              Cardinality({c \in 1 .. Len(mg_pc) :
                              ChunkLo(c) <= i /\ i <= ChunkHi(c)}) = 1
        /\ mg_lock_s \in 0 .. Len(mg_pc)
        /\ mg_lock_sx \in 0 .. Len(mg_pc)
        /\ mg_status = "returned" =>
              /\ \A c \in 1 .. Len(mg_pc) : mg_pc[c] = "done"
              /\ mg_out = <<LinearCombination(mg_v1, mg_rho),
                            LinearCombination(mg_v2, mg_rho)>>
              /\ mg_out = merge_pairs(mg_v1, mg_v2, mg_rho, mg_w).val

\* a call with three tasks has returned a pair that is not the identity,
\* made with coefficients that are not 0
C13_Witness ==
    /\ mg_status = "returned"
    /\ Len(mg_pc) >= 3
    /\ \A i \in 1 .. Len(mg_rho) : mg_rho[i] # Zero
    /\ mg_out[1] # Zero /\ mg_out[2] # Zero
    /\ mg_out[1] # mg_out[2]

---------------------------------------------------------------------------
(* transform with the tasks that fill the table of the powers of tau       *)

\* the indexes of chunk c of the table
TableLo(c) == (c - 1) * tf_cs + 1
TableHi(c) == Min(c * tf_cs, TAU_POWERS_G1_LENGTH)

\* Accumulator::new().transform(&key) on a machine with tf_w CPUs
InitTransform ==
    /\ tf_key \in PrivateKeys
    /\ tf_w \in Cpus
    /\ tf_cs = 0
    /\ tf_table = <<>>
    /\ tf_filled = <<>>
    /\ tf_status = "called"
    /\ tf_out = Accumulator_new
    /\ RatioIdle /\ PowerIdle /\ RoundIdle /\ ChainIdle /\ DriverIdle
    /\ StreamIdle /\ MergeIdle

\* lines 205-210: the table of zeros, the chunk size, and par_chunks_mut,
\* which panics on a chunk size of 0
TransformEnter ==
    /\ tf_status = "called"
    /\ LET chunk_size == TAU_POWERS_G1_LENGTH \div tf_w
       IN  IF chunk_size = 0
           THEN /\ tf_status' = "panicked"
                /\ UNCHANGED <<tf_cs, tf_table, tf_filled>>
           ELSE /\ tf_cs' = chunk_size
                /\ tf_table' = [j \in 1 .. TAU_POWERS_G1_LENGTH |-> Zero]
                /\ tf_filled' =
                      [c \in 1 .. ChunkCount(TAU_POWERS_G1_LENGTH, chunk_size)
                          |-> FALSE]
                /\ tf_status' = "filling"
    /\ UNCHANGED <<tf_key, tf_w, tf_out, oldVars, hsVars, mgVars>>

\* lines 212-219: the task of chunk i = c - 1 starts from
\* tau^(i * chunk_size) and multiplies by tau from one element to the next
TransformFill(c) ==
    /\ tf_status = "filling" /\ ~tf_filled[c]
    /\ tf_table' = [j \in 1 .. TAU_POWERS_G1_LENGTH |->
                       IF j >= TableLo(c) /\ j <= TableHi(c)
                       THEN Mul(Pow(tf_key.tau, (c - 1) * tf_cs),
                                Pow(tf_key.tau, j - TableLo(c)))
                       ELSE tf_table[j]]
    /\ tf_filled' = [tf_filled EXCEPT ![c] = TRUE]
    /\ UNCHANGED <<tf_key, tf_w, tf_cs, tf_status, tf_out, oldVars, hsVars,
                   mgVars>>

\* lines 252-268: the four batch_exp calls and beta_g2, after every task of
\* for_each is done
TransformBatch ==
    /\ tf_status = "filling"
    /\ \A c \in 1 .. Len(tf_filled) : tf_filled[c]
    /\ LET head == SubSeq(tf_table, 1, TAU_POWERS_LENGTH)
           t1 == batch_exp(tf_out.tau_powers_g1, tf_table, <<>>)
           t2 == batch_exp(tf_out.tau_powers_g2, head, <<>>)
           a1 == batch_exp(tf_out.alpha_tau_powers_g1, head, <<tf_key.alpha>>)
           b1 == batch_exp(tf_out.beta_tau_powers_g1, head, <<tf_key.beta>>)
       IN  IF t1.panic \/ t2.panic \/ a1.panic \/ b1.panic
           THEN tf_status' = "panicked" /\ UNCHANGED tf_out
           ELSE /\ tf_status' = "returned"
                /\ tf_out' = [tau_powers_g1 |-> t1.val,
                              tau_powers_g2 |-> t2.val,
                              alpha_tau_powers_g1 |-> a1.val,
                              beta_tau_powers_g1 |-> b1.val,
                              beta_g2 |-> Mul(tf_out.beta_g2, tf_key.beta)]
    /\ UNCHANGED <<tf_key, tf_w, tf_cs, tf_table, tf_filled, oldVars, hsVars,
                   mgVars>>

NextTransform ==
    \/ TransformEnter
    \/ \E c \in 1 .. Len(tf_filled) : TransformFill(c)
    \/ TransformBatch

SpecTransform == InitTransform /\ [][NextTransform]_vars

\* the accumulator of tau, alpha and beta: tau^i*G1, tau^i*G2,
\* alpha*tau^i*G1, beta*tau^i*G1 and beta*G2
AccumulatorOf(key) ==
    [tau_powers_g1 |-> [i \in 1 .. TAU_POWERS_G1_LENGTH |->
                           Mul(G1Generator, Pow(key.tau, i - 1))],
     tau_powers_g2 |-> [i \in 1 .. TAU_POWERS_LENGTH |->
                           Mul(G2Generator, Pow(key.tau, i - 1))],
     alpha_tau_powers_g1 |-> [i \in 1 .. TAU_POWERS_LENGTH |->
                           Mul(G1Generator,
                               Mul(key.alpha, Pow(key.tau, i - 1)))],
     beta_tau_powers_g1 |-> [i \in 1 .. TAU_POWERS_LENGTH |->
                           Mul(G1Generator,
                               Mul(key.beta, Pow(key.tau, i - 1)))],
     beta_g2 |-> Mul(G2Generator, key.beta)]

\* the least integer that is at least n / w
CeilDiv(n, w) == (n + w - 1) \div w

\* C14 as stated: for every number of CPUs, transform on the identity
\* accumulator does not panic, the chunks of the table have size ceil(n/w)
\* with no more chunks than CPUs, and it returns the accumulator of the key.
C14_CorrectForEveryWorkerCount ==
    /\ tf_status # "panicked"
    /\ tf_status \in {"filling", "returned"} =>
          /\ tf_cs = CeilDiv(TAU_POWERS_G1_LENGTH, tf_w)
          /\ Len(tf_filled) <= tf_w
    /\ tf_status = "returned" => tf_out = AccumulatorOf(tf_key)

\* C14, what the code does: transform panics exactly when there are more
\* CPUs than the TAU_POWERS_G1_LENGTH elements of the table; otherwise the
\* chunks have size floor(n/w), each filled chunk holds its powers of tau
\* and every other element is still 0, and it returns the accumulator of the
\* key, the one the operator transform gives.
C14_CorrectUpToTableLengthWorkers ==
    /\ (tf_status = "panicked") => (tf_w > TAU_POWERS_G1_LENGTH)
    /\ (tf_status # "called" /\ tf_w > TAU_POWERS_G1_LENGTH)
          => tf_status = "panicked"
    /\ tf_status \in {"filling", "returned"} =>
          /\ tf_cs = TAU_POWERS_G1_LENGTH \div tf_w
          /\ \A j \in 1 .. TAU_POWERS_G1_LENGTH :
                tf_table[j] = IF tf_filled[((j - 1) \div tf_cs) + 1]
                              THEN Pow(tf_key.tau, j - 1) ELSE Zero
    /\ tf_status = "returned" =>
          /\ tf_out = AccumulatorOf(tf_key)
          /\ tf_out = transform(Accumulator_new, tf_key, tf_w).val

===========================================================================
